---- MODULE Spec2Model ----
(***************************************************************************)
(* Chat / membership / message consistency model of the Myntraq server:    *)
(* the REST handlers of registerRoutes over the DatabaseStorage layer      *)
(* (tables chats, chat_participants, messages).                            *)
(*                                                                         *)
(* A table without a uniqueness constraint is a bag of rows.  A query      *)
(* without ORDER BY returns its rows in an order the database chooses, so  *)
(* "the first matching row" is any matching row.                           *)
(***************************************************************************)
EXTENDS Integers, Sequences, FiniteSets, Bags, TLC

\* ---------------------------------------------------------------- bounds
MaxChats == 1       \* Spec: chats ever created (ids are never reused)
MaxMsgs == 1        \* Spec: rows of the messages table
MaxMembers == 1     \* length of a memberIds array in a request body
MaxPrivChats == 2   \* SpecPriv: private chats ever created
MaxConcChats == 2   \* SpecConc: private chats ever created
TimeMsgs == 1       \* SpecTime: rows of the messages table
MaxClock == 1       \* SpecTime: last value of the clock
AdmMsgs == 1        \* SpecAdm: rows of the messages table
LogMsgs == 2        \* SpecLog, SpecMsgs: rows of the messages table
MaxFriendships == 2 \* SpecFriends: rows of the friendships table
ListMsgs == 2   \* SpecList: messages ever posted
ListClock == 2   \* SpecList: last value of the clock
MaxBulk == 2   \* SpecBulk: users named in one member-add request
DelMsgs == 1   \* SpecDel: messages ever posted
FetchMsgs == 2   \* SpecFetch: messages ever posted
FetchClock == 3   \* SpecFetch: last value of the clock

\* -------------------------------------------------------------- universe
Users == {"A", "B", "C"}
NULL == "null"
NullTime == -1    \* a null timestamp column
ChatIds == 1 .. MaxChats
PrivChatIds == 1 .. MaxPrivChats
TimeChatIds == {1, 2}
ChatTypes == {"private", "group", "channel"}
Roles == {"admin", "member"}
DefaultLimit == 50
Procs == {1, 2}
AdmUsers == {"A", "B"}
FriendshipIds == 1 .. MaxFriendships
PatchStatuses == {"accepted", "rejected"}
AdmChatIds == {1, 2}

VARIABLES
  chats,             \* table chats: set of rows (id is the primary key)
  chatParticipants,  \* table chat_participants: bag of rows
  messages,          \* table messages: rows in insertion order
  nextId,            \* next chat id to hand out
  now,               \* the clock read by defaultNow() and new Date()
  last,              \* the response of the request served last
  pc,                \* SpecConc: position of each in-flight POST /api/chats
  req,               \* SpecConc: caller, participantId and created chat
  friendships        \* table friendships: set of rows (id is the primary key)

vars == <<chats, chatParticipants, messages, nextId, now, last, pc, req, friendships>>
db == <<chats, chatParticipants, messages>>
conc == <<pc, req>>

\* ------------------------------------------------------------ bag helpers
Restrict(b, S) == [r \in S |-> b[r]]

RowsOfChat(c) == {r \in BagToSet(chatParticipants) : r.chatId = c}
RowsOfUser(u) == {r \in BagToSet(chatParticipants) : r.userId = u}
RowsOfPair(c, u) == {r \in BagToSet(chatParticipants) : r.chatId = c /\ r.userId = u}
CountRows(S) == BagCardinality(Restrict(chatParticipants, S))

RECURSIVE SeqsUpTo(_, _)
SeqsUpTo(S, n) ==
  IF n = 0 THEN {<<>>}
  ELSE LET shorter == SeqsUpTo(S, n - 1)
       IN  shorter \cup {Append(s, x) : s \in {t \in shorter : Len(t) = n - 1}, x \in S}

\* ------------------------------------------------------------- responses
Response(op, status, ret) == [op |-> op, status |-> status, ret |-> ret]

\* ----------------------------------------------------------- storage layer
\* a query result that is a row or undefined: {row} or {}
getChat(chatId) == {ch \in chats : ch.id = chatId}

\* the participants of a chat, as the set of distinct user ids
ParticipantSet(chatId) == {r.userId : r \in RowsOfChat(chatId)}

\* the possible results of getChatParticipant: the first matching row
getChatParticipant(chatId, userId) ==
  IF RowsOfPair(chatId, userId) = {} THEN {{}}
  ELSE {{r} : r \in RowsOfPair(chatId, userId)}

NewChat(id, type, createdBy) ==
  [id |-> id, type |-> type, createdBy |-> createdBy,
   createdAt |-> now, updatedAt |-> now, name |-> NULL]

NewRow(chatId, userId, role) ==
  [chatId |-> chatId, userId |-> userId, role |-> role, lastRead |-> NullTime]

addChatParticipant(b, chatId, userId, role) ==
  b (+) SetToBag({NewRow(chatId, userId, role)})

removeChatParticipant(b, chatId, userId) ==
  Restrict(b, {r \in BagToSet(b) : ~(r.chatId = chatId /\ r.userId = userId)})

updateParticipantRole(b, chatId, userId, role) ==
  BagOfAll(LAMBDA r : IF r.chatId = chatId /\ r.userId = userId
                      THEN [r EXCEPT !.role = role] ELSE r, b)

\* a mark-read whose update matches no row
markMessagesAsRead_norow(b, chatId, userId) ==
  BagOfAll(LAMBDA r : r, b)

markMessagesAsRead(b, chatId, userId) ==
  BagOfAll(LAMBDA r : IF r.chatId = chatId /\ r.userId = userId
                      THEN [r EXCEPT !.lastRead = now] ELSE r, b)

\* a lookup that asks every participant, not some participant, to be userId2
PrivateChatMatches_every(userId1, userId2) ==
  {ch \in chats :
     /\ ch.type = "private"
     /\ RowsOfPair(ch.id, userId1) # {}
     /\ CountRows(RowsOfChat(ch.id)) = 2
     /\ \A r \in RowsOfChat(ch.id) : r.userId = userId2}

\* the chats getPrivateChatBetweenUsers can stop at: a private chat among
\* userId1's participations that has two participant rows, one of userId2
PrivateChatMatches(userId1, userId2) ==
  {ch \in chats :
     /\ ch.type = "private"
     /\ RowsOfPair(ch.id, userId1) # {}
     /\ CountRows(RowsOfChat(ch.id)) = 2
     /\ RowsOfPair(ch.id, userId2) # {}}

getPrivateChatBetweenUsers(userId1, userId2) ==
  IF PrivateChatMatches(userId1, userId2) = {} THEN {{}}
  ELSE {{ch} : ch \in PrivateChatMatches(userId1, userId2)}

\* a delete that leaves the chat's messages behind
deleteChat_keepMessages(chatId) ==
  /\ messages' = messages
  /\ chatParticipants' =
       Restrict(chatParticipants,
                {r \in BagToSet(chatParticipants) : r.chatId # chatId})
  /\ chats' = {ch \in chats : ch.id # chatId}

deleteChat(chatId) ==
  /\ messages' = SelectSeq(messages, LAMBDA m : m.chatId # chatId)
  /\ chatParticipants' =
       Restrict(chatParticipants,
                {r \in BagToSet(chatParticipants) : r.chatId # chatId})
  /\ chats' = {ch \in chats : ch.id # chatId}

\* a createMessage that keeps only the newest message of each sender
createMessage_replace(chatId, senderId) ==
  /\ messages' = Append(SelectSeq(messages, LAMBDA m : m.senderId # senderId),
                        [chatId |-> chatId, senderId |-> senderId, createdAt |-> now])
  /\ chats' = {IF ch.id = chatId THEN [ch EXCEPT !.updatedAt = now] ELSE ch : ch \in chats}

createMessage(chatId, senderId) ==
  /\ messages' = Append(messages,
                        [chatId |-> chatId, senderId |-> senderId, createdAt |-> now])
  /\ chats' = {IF ch.id = chatId THEN [ch EXCEPT !.updatedAt = now] ELSE ch : ch \in chats}

updateChat(chatId, name) ==
  {IF ch.id = chatId THEN [ch EXCEPT !.name = name, !.updatedAt = now] ELSE ch : ch \in chats}

\* the rows of one chat in the messages table, in insertion order
ChatMessages(chatId) == SelectSeq(messages, LAMBDA m : m.chatId = chatId)

Reverse(s) == [i \in 1 .. Len(s) |-> s[Len(s) + 1 - i]]
Min(a, b) == IF a < b THEN a ELSE b
SeqToBag(s) == [x \in {s[i] : i \in DOMAIN s} |-> Cardinality({i \in DOMAIN s : s[i] = x})]

\* the possible results of ORDER BY created_at DESC: every arrangement of
\* the chat's messages with non-increasing createdAt (ties in any order)
DescOrders(chatId) ==
  LET ms == ChatMessages(chatId)
      n == Len(ms)
  IN  {[i \in 1 .. n |-> ms[f[i]]] :
         f \in {g \in [1 .. n -> 1 .. n] :
                  /\ \A i, j \in 1 .. n : i # j => g[i] # g[j]
                  /\ \A i \in 1 .. n - 1 : ms[g[i]].createdAt >= ms[g[i + 1]].createdAt}}

\* a getMessages that returns the rows as selected, newest first
getMessages_newestFirst(chatId, limit) ==
  {SubSeq(d, 1, Min(limit, Len(d))) : d \in DescOrders(chatId)}

\* the possible results of getMessages(chatId, limit)
getMessages(chatId, limit) ==
  {Reverse(SubSeq(d, 1, Min(limit, Len(d)))) : d \in DescOrders(chatId)}

\* the possible results of getChatWithDetails: undefined, or the chat row
\* with its lastMessage ({} or {message}); participants are read from
\* chatParticipants and unreadCount is the constant 0
getChatWithDetails(chatId) ==
  IF getChat(chatId) = {} THEN {{}}
  ELSE {{[chat |-> ch,
          lastMessage |-> IF msgs = <<>> THEN {} ELSE {msgs[1]},
          unreadCount |-> 0]} :
          ch \in getChat(chatId), msgs \in getMessages(chatId, 1)}

\* an unread query that also counts a message created at the read cursor
RECURSIVE CountUnread_geq(_, _, _, _)
CountUnread_geq(msgs, chatId, userId, lastRead) ==
  IF msgs = <<>> THEN 0
  ELSE (IF /\ Head(msgs).chatId = chatId
           /\ Head(msgs).senderId # userId
           /\ (IF lastRead # NullTime THEN Head(msgs).createdAt >= lastRead ELSE TRUE)
        THEN 1 ELSE 0)
       + CountUnread_geq(Tail(msgs), chatId, userId, lastRead)

\* count(*) of the unread query of getUserChats, row by row
RECURSIVE CountUnread(_, _, _, _)
CountUnread(msgs, chatId, userId, lastRead) ==
  IF msgs = <<>> THEN 0
  ELSE (IF /\ Head(msgs).chatId = chatId
           /\ Head(msgs).senderId # userId
           /\ (IF lastRead # NullTime THEN Head(msgs).createdAt > lastRead ELSE TRUE)
        THEN 1 ELSE 0)
       + CountUnread(Tail(msgs), chatId, userId, lastRead)

\* the sort key of getUserChats: lastMessage.createdAt, else chat.createdAt
SortTime_created(details) == details.chat.createdAt

SortTime(details) ==
  IF details.lastMessage # {}
  THEN (CHOOSE m \in details.lastMessage : TRUE).createdAt
  ELSE details.chat.createdAt

\* the possible results of getUserChats: one entry per participation row of
\* the user whose chat exists, sorted by descending sort key
getUserChats(userId) ==
  LET rows == RowsOfUser(userId)
      chatIds == {r.chatId : r \in rows}
      live == {c \in chatIds : getChat(c) # {}}
      Finds == {f \in [chatIds -> rows] : \A c \in chatIds : f[c].chatId = c}
      Details == {d \in [live -> UNION {UNION getChatWithDetails(c) : c \in live}] :
                    \A c \in live : {d[c]} \in getChatWithDetails(c)}
      Entry(c, find, details) ==
        [id |-> c,
         unreadCount |-> CountUnread(messages, c, userId, find[c].lastRead),
         time |-> SortTime(details[c])]
      Entries(find, details) ==
        [e \in {Entry(c, find, details) : c \in live} |->
           CountRows({r \in rows : r.chatId = e.id})]
      Sorted(entries) ==
        LET n == BagCardinality(entries)
        IN  {s \in [1 .. n -> DOMAIN entries] :
               /\ SeqToBag(s) = entries
               /\ \A i \in 1 .. n - 1 : s[i].time >= s[i + 1].time}
  IN  UNION {Sorted(Entries(find, details)) : find \in Finds, details \in Details}

NoRequest == [userId |-> NULL, participantId |-> NULL, chatId |-> 0]

\* ------------------------------------------------------------------- Init
Init ==
  /\ chats = {}
  /\ chatParticipants = EmptyBag
  /\ messages = <<>>
  /\ nextId = 1
  /\ now = 0
  /\ last = Response("none", 0, <<>>)
  /\ pc = [p \in Procs |-> "idle"]
  /\ req = [p \in Procs |-> NoRequest]
  /\ friendships = {}

\* ------------------------------------------------------------ the handlers
\* POST /api/chats
PostChats_admin(userId, participantId) ==
  /\ \E existingChat \in getPrivateChatBetweenUsers(userId, participantId) :
       IF existingChat # {}
       THEN /\ last' = Response("postChats", 200, <<(CHOOSE ch \in existingChat : TRUE).id>>)
            /\ UNCHANGED <<chats, chatParticipants, nextId>>
       ELSE /\ chats' = chats \cup {NewChat(nextId, "private", NULL)}
            /\ chatParticipants' =
                 addChatParticipant(
                   addChatParticipant(chatParticipants, nextId, userId, "admin"),
                   nextId, participantId, "member")
            /\ nextId' = nextId + 1
            /\ last' = Response("postChats", 200, <<nextId>>)
  /\ UNCHANGED <<messages, now, conc, friendships>>

PostChats(userId, participantId) ==
  /\ \E existingChat \in getPrivateChatBetweenUsers(userId, participantId) :
       IF existingChat # {}
       THEN /\ last' = Response("postChats", 200, <<(CHOOSE ch \in existingChat : TRUE).id>>)
            /\ UNCHANGED <<chats, chatParticipants, nextId>>
       ELSE /\ chats' = chats \cup {NewChat(nextId, "private", NULL)}
            /\ chatParticipants' =
                 addChatParticipant(
                   addChatParticipant(chatParticipants, nextId, userId, "member"),
                   nextId, participantId, "member")
            /\ nextId' = nextId + 1
            /\ last' = Response("postChats", 200, <<nextId>>)
  /\ UNCHANGED <<messages, now, conc, friendships>>

RECURSIVE addAll(_, _, _)
addAll(b, chatId, memberIds) ==
  IF memberIds = <<>> THEN b
  ELSE addAll(addChatParticipant(b, chatId, Head(memberIds), "member"),
              chatId, Tail(memberIds))

\* POST /api/groups
PostGroups(userId, type, name, memberIds) ==
  /\ chats' = chats \cup {[NewChat(nextId, type, userId) EXCEPT !.name = name]}
  /\ chatParticipants' =
       addAll(addChatParticipant(chatParticipants, nextId, userId, "admin"),
              nextId, memberIds)
  /\ nextId' = nextId + 1
  /\ last' = Response("postGroups", 200, <<nextId>>)
  /\ UNCHANGED <<messages, now, conc, friendships>>

\* GET /api/chats
GetChats(userId) ==
  /\ \E list \in getUserChats(userId) : last' = Response("getChats", 200, list)
  /\ UNCHANGED <<chats, chatParticipants, messages, nextId, now, conc, friendships>>

\* GET /api/chats/:chatId
GetChat(userId, chatId) ==
  /\ \E chat \in getChatWithDetails(chatId) :
       IF chat = {} THEN last' = Response("getChat", 404, <<>>)
       ELSE last' = Response("getChat", 200, <<>>)
  /\ UNCHANGED <<chats, chatParticipants, messages, nextId, now, conc, friendships>>

\* GET /api/chats/:chatId/messages
GetMessages(userId, chatId) ==
  /\ chatParticipants' = markMessagesAsRead(chatParticipants, chatId, userId)
  /\ \E msgs \in getMessages(chatId, DefaultLimit) :
       last' = Response("getMessages", 200, msgs)
  /\ UNCHANGED <<chats, messages, nextId, now, conc, friendships>>

\* POST /api/chats/:chatId/messages
PostMessage(userId, chatId) ==
  /\ \E participant \in getChatParticipant(chatId, userId) :
       IF /\ \E ch \in getChat(chatId) : ch.type = "channel"
          /\ (participant = {} \/ \E p \in participant : p.role # "admin")
       THEN /\ last' = Response("postMessage", 403, <<>>)
            /\ UNCHANGED <<chats, messages>>
       ELSE /\ createMessage(chatId, userId)
            /\ last' = Response("postMessage", 200, <<>>)
  /\ UNCHANGED <<chatParticipants, nextId, now, conc, friendships>>

\* PATCH /api/groups/:chatId
PatchGroup(userId, chatId, name) ==
  /\ \E participant \in getChatParticipant(chatId, userId) :
       IF participant = {} \/ \E p \in participant : p.role # "admin"
       THEN /\ last' = Response("patchGroup", 403, <<>>)
            /\ UNCHANGED chats
       ELSE /\ chats' = updateChat(chatId, name)
            /\ last' = Response("patchGroup", 200, <<>>)
  /\ UNCHANGED <<chatParticipants, messages, nextId, now, conc, friendships>>

\* a delete handler that asks for the admin role instead of the creator
DeleteGroup_byAdmin(userId, chatId) ==
  /\ IF getChat(chatId) = {}
     THEN /\ last' = Response("deleteGroup", 404, <<>>)
          /\ UNCHANGED db
     ELSE IF ~ \E r \in RowsOfPair(chatId, userId) : r.role = "admin"
     THEN /\ last' = Response("deleteGroup", 403, <<>>)
          /\ UNCHANGED db
     ELSE /\ deleteChat(chatId)
          /\ last' = Response("deleteGroup", 200, <<>>)
  /\ UNCHANGED <<nextId, now, conc, friendships>>

\* DELETE /api/groups/:chatId
DeleteGroup(userId, chatId) ==
  /\ IF getChat(chatId) = {}
     THEN /\ last' = Response("deleteGroup", 404, <<>>)
          /\ UNCHANGED db
     ELSE IF \E ch \in getChat(chatId) : ch.createdBy # userId
     THEN /\ last' = Response("deleteGroup", 403, <<>>)
          /\ UNCHANGED db
     ELSE /\ deleteChat(chatId)
          /\ last' = Response("deleteGroup", 200, <<>>)
  /\ UNCHANGED <<nextId, now, conc, friendships>>

\* the loop of POST /api/groups/:chatId/members over memberIds
RECURSIVE addMissing(_, _, _)
addMissing(b, chatId, memberIds) ==
  IF memberIds = <<>> THEN b
  ELSE LET memberId == Head(memberIds)
           existing == {r \in BagToSet(b) : r.chatId = chatId /\ r.userId = memberId}
       IN  addMissing(IF existing = {}
                      THEN addChatParticipant(b, chatId, memberId, "member")
                      ELSE b,
                      chatId, Tail(memberIds))

\* POST /api/groups/:chatId/members
PostMembers(userId, chatId, memberIds) ==
  /\ \E participant \in getChatParticipant(chatId, userId) :
       IF participant = {} \/ \E p \in participant : p.role # "admin"
       THEN /\ last' = Response("postMembers", 403, <<>>)
            /\ UNCHANGED chatParticipants
       ELSE /\ chatParticipants' = addMissing(chatParticipants, chatId, memberIds)
            /\ last' = Response("postMembers", 200, <<>>)
  /\ UNCHANGED <<chats, messages, nextId, now, conc, friendships>>

\* a member-remove handler that lets the creator leave: the creator check
\* applies to removal by others only
DeleteMember_creatorLeaves(userId, chatId, memberId) ==
  /\ IF getChat(chatId) = {}
     THEN /\ last' = Response("deleteMember", 404, <<>>)
          /\ UNCHANGED chatParticipants
     ELSE \E participant \in getChatParticipant(chatId, userId) :
          IF /\ memberId # userId
             /\ (participant = {} \/ \E p \in participant : p.role # "admin")
          THEN /\ last' = Response("deleteMember", 403, <<>>)
               /\ UNCHANGED chatParticipants
          ELSE IF memberId # userId /\ \E ch \in getChat(chatId) : memberId = ch.createdBy
          THEN /\ last' = Response("deleteMember", 400, <<>>)
               /\ UNCHANGED chatParticipants
          ELSE /\ chatParticipants' =
                    removeChatParticipant(chatParticipants, chatId, memberId)
               /\ last' = Response("deleteMember", 200, <<>>)
  /\ UNCHANGED <<chats, messages, nextId, now, conc, friendships>>

\* DELETE /api/groups/:chatId/members/:memberId
DeleteMember(userId, chatId, memberId) ==
  /\ IF getChat(chatId) = {}
     THEN /\ last' = Response("deleteMember", 404, <<>>)
          /\ UNCHANGED chatParticipants
     ELSE \E participant \in getChatParticipant(chatId, userId) :
          IF /\ memberId # userId
             /\ (participant = {} \/ \E p \in participant : p.role # "admin")
          THEN /\ last' = Response("deleteMember", 403, <<>>)
               /\ UNCHANGED chatParticipants
          ELSE IF \E ch \in getChat(chatId) : memberId = ch.createdBy
          THEN /\ last' = Response("deleteMember", 400, <<>>)
               /\ UNCHANGED chatParticipants
          ELSE /\ chatParticipants' =
                    removeChatParticipant(chatParticipants, chatId, memberId)
               /\ last' = Response("deleteMember", 200, <<>>)
  /\ UNCHANGED <<chats, messages, nextId, now, conc, friendships>>

\* a role handler that lets every participant change roles
PatchRole_anyParticipant(userId, chatId, memberId, role) ==
  /\ \E participant \in getChatParticipant(chatId, userId) :
       IF participant = {}
       THEN /\ last' = Response("patchRole", 403, <<>>)
            /\ UNCHANGED chatParticipants
       ELSE /\ chatParticipants' =
                 updateParticipantRole(chatParticipants, chatId, memberId, role)
            /\ last' = Response("patchRole", 200, <<>>)
  /\ UNCHANGED <<chats, messages, nextId, now, conc, friendships>>

\* PATCH /api/groups/:chatId/members/:memberId/role
PatchRole(userId, chatId, memberId, role) ==
  /\ \E participant \in getChatParticipant(chatId, userId) :
       IF participant = {} \/ \E p \in participant : p.role # "admin"
       THEN /\ last' = Response("patchRole", 403, <<>>)
            /\ UNCHANGED chatParticipants
       ELSE /\ chatParticipants' =
                 updateParticipantRole(chatParticipants, chatId, memberId, role)
            /\ last' = Response("patchRole", 200, <<>>)
  /\ UNCHANGED <<chats, messages, nextId, now, conc, friendships>>

\* time passes between two requests
Tick ==
  /\ now' = now + 1
  /\ UNCHANGED <<chats, chatParticipants, messages, nextId, last, conc, friendships>>

\* ------------------------------------------------------------ friendships
FriendshipsBetween(userId, friendId) ==
  {f \in friendships :
     \/ f.userId = userId /\ f.friendId = friendId
     \/ f.userId = friendId /\ f.friendId = userId}

\* a lookup that matches the requested direction only
getFriendship_oneWay(userId, friendId) ==
  LET found == {f \in friendships : f.userId = userId /\ f.friendId = friendId}
  IN  IF found = {} THEN {{}} ELSE {{f} : f \in found}

\* the possible results of getFriendship: the first matching row
getFriendship(userId, friendId) ==
  IF FriendshipsBetween(userId, friendId) = {} THEN {{}}
  ELSE {{f} : f \in FriendshipsBetween(userId, friendId)}

\* friendships are never deleted, so the row count names a fresh id
createFriendship(userId, friendId, status) ==
  friendships \cup {[id |-> Cardinality(friendships) + 1, userId |-> userId,
                     friendId |-> friendId, status |-> status, createdAt |-> now]}

updateFriendshipStatus(id, status) ==
  {IF f.id = id THEN [f EXCEPT !.status = status] ELSE f : f \in friendships}

getPendingRequests(userId) ==
  {f \in friendships : f.friendId = userId /\ f.status = "pending"}

\* POST /api/friends
PostFriends(userId, friendId) ==
  /\ \E existing \in getFriendship(userId, friendId) :
       IF existing # {}
       THEN /\ last' = Response("postFriends", 400, <<>>)
            /\ UNCHANGED friendships
       ELSE /\ friendships' = createFriendship(userId, friendId, "pending")
            /\ last' = Response("postFriends", 200, <<Cardinality(friendships) + 1>>)
  /\ UNCHANGED <<db, nextId, now, conc>>

\* PATCH /api/friends/:friendshipId
PatchFriends(userId, friendshipId, status) ==
  /\ friendships' = updateFriendshipStatus(friendshipId, status)
  /\ last' = Response("patchFriends", 200, <<>>)
  /\ UNCHANGED <<db, nextId, now, conc>>

\* GET /api/friends/requests; the answer lists the ids in any order
GetFriendRequests(userId) ==
  /\ LET ids == {f.id : f \in getPendingRequests(userId)}
     IN  \E list \in {s \in [1 .. Cardinality(ids) -> ids] :
                        \A i, j \in DOMAIN s : i # j => s[i] # s[j]} :
           last' = Response("getFriendRequests", 200, list)
  /\ UNCHANGED <<db, nextId, now, conc, friendships>>

Names == {"n1", "n2"}
MemberLists == SeqsUpTo(Users, MaxMembers)

\* ------------------------------------------------------------------ Spec
\* every chat handler, one request at a time, all served at one instant
Next ==
  \/ \E u \in Users, p \in Users : PostChats(u, p) /\ nextId' <= MaxChats + 1
  \/ \E u \in Users, t \in {"group", "channel"}, ms \in MemberLists :
       PostGroups(u, t, "n1", ms) /\ nextId' <= MaxChats + 1
  \/ \E u \in Users : GetChats(u)
  \/ \E u \in Users, c \in ChatIds : GetChat(u, c)
  \/ \E u \in Users, c \in ChatIds : GetMessages(u, c)
  \/ \E u \in Users, c \in ChatIds : PostMessage(u, c) /\ Len(messages') <= MaxMsgs
  \/ \E u \in Users, c \in ChatIds, n \in Names : PatchGroup(u, c, n)
  \/ \E u \in Users, c \in ChatIds : DeleteGroup(u, c)
  \/ \E u \in Users, c \in ChatIds, ms \in MemberLists \ {<<>>} : PostMembers(u, c, ms)
  \/ \E u \in Users, c \in ChatIds, m \in Users : DeleteMember(u, c, m)
  \/ \E u \in Users, c \in ChatIds, m \in Users, r \in Roles : PatchRole(u, c, m, r)

Spec == Init /\ [][Next]_vars

\* -------------------------------------------------------------- SpecPriv
\* private chats only: POST /api/chats and every handler that writes the
\* chats table or the membership of a chat, addressed to any chat id
NextPriv ==
  \/ \E u \in Users, p \in Users : PostChats(u, p) /\ nextId' <= MaxPrivChats + 1
  \/ \E u \in Users, c \in PrivChatIds, n \in Names : PatchGroup(u, c, n)
  \/ \E u \in Users, c \in PrivChatIds : DeleteGroup(u, c)
  \/ \E u \in Users, c \in PrivChatIds, ms \in MemberLists \ {<<>>} : PostMembers(u, c, ms)
  \/ \E u \in Users, c \in PrivChatIds, m \in Users : DeleteMember(u, c, m)
  \/ \E u \in Users, c \in PrivChatIds, m \in Users, r \in Roles : PatchRole(u, c, m, r)

SpecPriv == Init /\ [][NextPriv]_vars

\* -------------------------------------------------------------- SpecConc
\* POST /api/chats served for several callers at once: the handler gives up
\* control at each await, so its lookup and its three inserts are steps of
\* their own and the steps of two requests interleave.

\* lines 189-196: the lookup; an existing chat is answered at once
ChatsLookup(p, userId, participantId) ==
  /\ pc[p] = "idle"
  /\ \E existingChat \in getPrivateChatBetweenUsers(userId, participantId) :
       IF existingChat # {}
       THEN /\ last' = Response("postChats", 200, <<(CHOOSE ch \in existingChat : TRUE).id>>)
            /\ UNCHANGED <<pc, req>>
       ELSE /\ pc' = [pc EXCEPT ![p] = "createChat"]
            /\ req' = [req EXCEPT ![p] = [userId |-> userId,
                                          participantId |-> participantId,
                                          chatId |-> 0]]
            /\ UNCHANGED last
  /\ UNCHANGED <<chats, chatParticipants, messages, nextId, now, friendships>>

\* a create step that looks the pair up again and inserts nothing on a hit
ChatsCreate_recheck(p) ==
  /\ pc[p] = "createChat"
  /\ IF PrivateChatMatches(req[p].userId, req[p].participantId) # {}
     THEN /\ pc' = [pc EXCEPT ![p] = "idle"]
          /\ req' = [req EXCEPT ![p] = NoRequest]
          /\ UNCHANGED <<chats, nextId>>
     ELSE /\ chats' = chats \cup {NewChat(nextId, "private", NULL)}
          /\ nextId' = nextId + 1
          /\ req' = [req EXCEPT ![p].chatId = nextId]
          /\ pc' = [pc EXCEPT ![p] = "addCaller"]
  /\ UNCHANGED <<chatParticipants, messages, now, last, friendships>>

\* line 199: createChat
ChatsCreate(p) ==
  /\ pc[p] = "createChat"
  /\ chats' = chats \cup {NewChat(nextId, "private", NULL)}
  /\ nextId' = nextId + 1
  /\ req' = [req EXCEPT ![p].chatId = nextId]
  /\ pc' = [pc EXCEPT ![p] = "addCaller"]
  /\ UNCHANGED <<chatParticipants, messages, now, last, friendships>>

\* line 202: the caller's participation
ChatsAddCaller(p) ==
  /\ pc[p] = "addCaller"
  /\ chatParticipants' =
       addChatParticipant(chatParticipants, req[p].chatId, req[p].userId, "member")
  /\ pc' = [pc EXCEPT ![p] = "addParticipant"]
  /\ UNCHANGED <<chats, messages, nextId, now, last, req, friendships>>

\* lines 203-206: the other user's participation, then the response
ChatsAddParticipant(p) ==
  /\ pc[p] = "addParticipant"
  /\ chatParticipants' =
       addChatParticipant(chatParticipants, req[p].chatId, req[p].participantId, "member")
  /\ last' = Response("postChats", 200, <<req[p].chatId>>)
  /\ pc' = [pc EXCEPT ![p] = "idle"]
  /\ req' = [req EXCEPT ![p] = NoRequest]
  /\ UNCHANGED <<chats, messages, nextId, now, friendships>>

NextConc ==
  \/ \E p \in Procs, u \in Users, q \in Users : ChatsLookup(p, u, q)
  \/ \E p \in Procs : ChatsCreate(p) /\ nextId' <= MaxConcChats + 1
  \/ \E p \in Procs : ChatsAddCaller(p)
  \/ \E p \in Procs : ChatsAddParticipant(p)

SpecConc == Init /\ [][NextConc]_vars

\* -------------------------------------------------------------- SpecTime
\* one chat, created at time 0 by POST /api/chats or POST /api/groups, then
\* posts, fetches, chat lists and leaves, one request at a time, with time
\* passing between requests; chat id 2 is never created
InitTime ==
  /\ now = 0
  /\ nextId = 2
  /\ messages = <<>>
  /\ pc = [p \in Procs |-> "idle"]
  /\ req = [p \in Procs |-> NoRequest]
  /\ friendships = {}
  /\ \/ /\ chats = {NewChat(1, "private", NULL)}
        /\ chatParticipants =
             addChatParticipant(addChatParticipant(EmptyBag, 1, "A", "member"),
                                1, "B", "member")
        /\ last = Response("postChats", 200, <<1>>)
     \/ \E memberIds \in {<<"B">>, <<"A">>} :
        /\ chats = {[NewChat(1, "group", "A") EXCEPT !.name = "n1"]}
        /\ chatParticipants =
             addAll(addChatParticipant(EmptyBag, 1, "A", "admin"), 1, memberIds)
        /\ last = Response("postGroups", 200, <<1>>)

NextTime ==
  \/ \E u \in Users : GetChats(u)
  \/ \E u \in Users, c \in TimeChatIds : GetMessages(u, c)
  \/ \E u \in Users, c \in TimeChatIds : PostMessage(u, c) /\ Len(messages') <= TimeMsgs
  \/ \E u \in Users, c \in TimeChatIds, m \in Users : DeleteMember(u, c, m)
  \/ Tick /\ now' <= MaxClock

SpecTime == InitTime /\ [][NextTime]_vars

\* -------------------------------------------------------------- SpecRead
\* the chat of SpecTime with fetches (which mark read) and posts only, one
\* request at a time, with time passing between requests
NextRead ==
  \/ \E u \in Users, c \in TimeChatIds : GetMessages(u, c)
  \/ \E u \in Users, c \in TimeChatIds : PostMessage(u, c) /\ Len(messages') <= TimeMsgs
  \/ Tick /\ now' <= MaxClock

SpecRead == InitTime /\ [][NextRead]_vars

\* --------------------------------------------------------------- SpecAdm
\* two chats created at time 0: chat 1, a group or channel that A created
\* with member B, and chat 2, the private chat of A and B; then posts,
\* settings edits, deletes and membership changes by A and B, one request
\* at a time
InitAdm ==
  /\ now = 0
  /\ nextId = 3
  /\ messages = <<>>
  /\ pc = [p \in Procs |-> "idle"]
  /\ req = [p \in Procs |-> NoRequest]
  /\ friendships = {}
  /\ \E type \in {"group", "channel"} :
       chats = {[NewChat(1, type, "A") EXCEPT !.name = "n1"],
                NewChat(2, "private", NULL)}
  /\ chatParticipants =
       addChatParticipant(
         addChatParticipant(
           addAll(addChatParticipant(EmptyBag, 1, "A", "admin"), 1, <<"B">>),
           2, "A", "member"),
         2, "B", "member")
  /\ last = Response("postChats", 200, <<2>>)

NextAdm ==
  \/ \E u \in AdmUsers, c \in AdmChatIds : PostMessage(u, c) /\ Len(messages') <= AdmMsgs
  \/ \E u \in AdmUsers, c \in AdmChatIds : PatchGroup(u, c, "n2")
  \/ \E u \in AdmUsers, c \in AdmChatIds : DeleteGroup(u, c)
  \/ \E u \in AdmUsers, c \in AdmChatIds : PostMembers(u, c, <<"B">>)
  \/ \E u \in AdmUsers, c \in AdmChatIds, m \in AdmUsers : DeleteMember(u, c, m)
  \/ \E u \in AdmUsers, c \in AdmChatIds, m \in AdmUsers, r \in Roles :
       PatchRole(u, c, m, r)

SpecAdm == InitAdm /\ [][NextAdm]_vars

\* --------------------------------------------------------------- SpecLog
\* the chat of SpecTime with every handler that does not create a chat,
\* called by A and B, one request at a time, all served at one instant
NextLog ==
  \/ \E u \in AdmUsers : GetChats(u)
  \/ \E u \in AdmUsers, c \in TimeChatIds : GetChat(u, c)
  \/ \E u \in AdmUsers, c \in TimeChatIds : GetMessages(u, c)
  \/ \E u \in AdmUsers, c \in TimeChatIds : PostMessage(u, c) /\ Len(messages') <= LogMsgs
  \/ \E u \in AdmUsers, c \in TimeChatIds : PatchGroup(u, c, "n2")
  \/ \E u \in AdmUsers, c \in TimeChatIds : DeleteGroup(u, c)
  \/ \E u \in AdmUsers, c \in TimeChatIds : PostMembers(u, c, <<"B">>)
  \/ \E u \in AdmUsers, c \in TimeChatIds, m \in AdmUsers : DeleteMember(u, c, m)
  \/ \E u \in AdmUsers, c \in TimeChatIds, m \in AdmUsers, r \in Roles :
       PatchRole(u, c, m, r)

SpecLog == InitTime /\ [][NextLog]_vars

\* -------------------------------------------------------------- SpecMsgs
\* the chat of SpecTime with posts and fetches by A and B, to chat 1 and to
\* the chat id 2 that no chat has, with time passing between requests
NextMsgs ==
  \/ \E u \in AdmUsers, c \in TimeChatIds : PostMessage(u, c) /\ Len(messages') <= LogMsgs
  \/ \E u \in AdmUsers, c \in TimeChatIds : GetMessages(u, c)
  \/ Tick /\ now' <= MaxClock

SpecMsgs == InitTime /\ [][NextMsgs]_vars

\* ----------------------------------------------------------- SpecFriends
\* friend requests and answers by any user, one request at a time
NextFriends ==
  \/ \E u \in Users, v \in Users :
       PostFriends(u, v) /\ Cardinality(friendships') <= MaxFriendships
  \/ \E u \in Users, id \in FriendshipIds, st \in PatchStatuses : PatchFriends(u, id, st)
  \/ \E u \in Users : GetFriendRequests(u)

SpecFriends == Init /\ [][NextFriends]_vars

\* =================================================================== claims

IsCreator(chatId, userId) == \E ch \in getChat(chatId) : ch.createdBy = userId
HasRole(chatId, userId, role) == \E r \in RowsOfPair(chatId, userId) : r.role = role

\* C1: the creator of every group or channel has a participation with
\* role admin for as long as the chat exists (the creator's own leave
\* request is refused, so the creator never leaves).
C1_CreatorStaysAdmin ==
  \A ch \in chats : ch.createdBy # NULL => HasRole(ch.id, ch.createdBy, "admin")

\* C2: a member-remove request naming the creator, issued by anyone but the
\* creator, is answered 403 Forbidden and leaves the creator's rows alone.
C2_CreatorRemovalForbidden ==
  [][\A u \in Users, c \in ChatIds, m \in Users :
       (DeleteMember(u, c, m) /\ u # m /\ IsCreator(c, m))
         => /\ last'.status = 403
            /\ chatParticipants' = chatParticipants]_vars

\* C3: a post to a channel is appended if and only if the caller has a
\* participation with role admin in it; otherwise it is answered 403 and the
\* messages table is unchanged.
C3_ChannelPostIffAdmin ==
  [][\A u \in Users, c \in ChatIds :
       (PostMessage(u, c) /\ \E ch \in getChat(c) : ch.type = "channel")
         => IF HasRole(c, u, "admin")
            THEN /\ last'.status = 200
                 /\ Len(messages') = Len(messages) + 1
            ELSE /\ last'.status = 403
                 /\ messages' = messages]_vars

\* C4: a post to a group or private chat by a user with no participation in
\* it is rejected and appends nothing.
C4_SenderIsParticipant ==
  [][\A u \in Users, c \in ChatIds :
       (/\ PostMessage(u, c)
        /\ \E ch \in getChat(c) : ch.type \in {"group", "private"}
        /\ RowsOfPair(c, u) = {})
         => /\ last'.status # 200
            /\ messages' = messages]_vars

\* C5: every private chat has exactly two participants.
C5_PrivateChatHasTwo ==
  \A ch \in chats : ch.type = "private" => CountRows(RowsOfChat(ch.id)) = 2

\* the private chats whose participant set is exactly {a, b}
SharedChats(a, b) ==
  {ch \in chats : ch.type = "private" /\ ParticipantSet(ch.id) = {a, b}}

\* C6: with one request at a time, at most one private chat has the
\* participant set {a, b}, and POST /api/chats for two users who share a
\* private chat returns that chat's id and inserts no chat and no
\* participation, whichever of the two calls.
C6_SamePairSameChat ==
  /\ [](\A a, b \in Users : a # b => Cardinality(SharedChats(a, b)) <= 1)
  /\ [][\A a, b \in Users :
          (a # b /\ SharedChats(a, b) # {} /\ PostChats(a, b))
            => /\ UNCHANGED <<chats, chatParticipants, nextId>>
               /\ \E ch \in SharedChats(a, b) : last'.ret = <<ch.id>>]_vars

\* C6 witness: the last request was a POST /api/chats answered with the id
\* of an older chat that two users share, so it created nothing.
C6_Witness ==
  /\ last.op = "postChats"
  /\ \E a, b \in Users :
       /\ a # b
       /\ \E ch \in SharedChats(a, b) : last.ret = <<ch.id>> /\ ch.id + 1 < nextId

\* C9: whatever getPrivateChatBetweenUsers(a, b) returns is a private chat
\* whose participant set is exactly {a, b}.
C9_LookupExact ==
  \A a, b \in Users :
    \A res \in getPrivateChatBetweenUsers(a, b) :
      \A ch \in res : ch.type = "private" /\ ParticipantSet(ch.id) = {a, b}

\* C7: a POST /api/chats that found no chat at its lookup inserts a new chat
\* whatever other requests did in between (nothing is looked up again and
\* nothing is locked), so two requests for one pair can both insert.
C7_NoRecheckBeforeInsert ==
  [][\A p \in Procs :
       (pc[p] = "createChat" /\ pc'[p] # "createChat")
         => /\ pc'[p] = "addCaller"
            /\ chats' = chats \cup {NewChat(nextId, "private", NULL)}
            /\ UNCHANGED chatParticipants]_vars

\* C7 witness: both requests are done and two private chats have the same
\* two participants.
C7_Witness ==
  /\ \A p \in Procs : pc[p] = "idle"
  /\ \E a, b \in Users :
       /\ a # b
       /\ \E c1, c2 \in SharedChats(a, b) :
            /\ c1.id # c2.id
            /\ CountRows(RowsOfChat(c1.id)) = 2
            /\ CountRows(RowsOfChat(c2.id)) = 2

\* C8: getPrivateChatBetweenUsers(a, b) and getPrivateChatBetweenUsers(b, a)
\* return the same chat, or both return none.
C8_LookupSymmetric ==
  \A a, b \in Users :
    \A x \in getPrivateChatBetweenUsers(a, b), y \in getPrivateChatBetweenUsers(b, a) :
      x = y

\* the messages of chat c that user u has not read, given u's read cursor
UnreadOf(c, u, cursor) ==
  {k \in DOMAIN messages :
     /\ messages[k].chatId = c
     /\ messages[k].senderId # u
     /\ (cursor = NullTime \/ messages[k].createdAt > cursor)}

\* C10: for every user u and every chat in every possible result of
\* getUserChats(u), the reported unread count is the number of messages of
\* that chat sent by others and created strictly after u's read cursor, or
\* the number of all messages of that chat sent by others when the cursor
\* is null.
C10_UnreadCount ==
  \A u \in Users :
    \A list \in getUserChats(u) :
      \A i \in DOMAIN list :
        \A r \in RowsOfPair(list[i].id, u) :
          list[i].unreadCount = Cardinality(UnreadOf(list[i].id, u, r.lastRead))

\* C10 witness: GET /api/chats has just reported one unread message to a
\* user who has read the chat before.
C10_Witness ==
  /\ last.op = "getChats"
  /\ \E u \in Users :
       /\ last.ret \in getUserChats(u)
       /\ \E i \in DOMAIN last.ret :
            /\ last.ret[i].unreadCount = 1
            /\ \E r \in RowsOfPair(last.ret[i].id, u) : r.lastRead # NullTime

\* the unread counts GET /api/chats can report to user u for chat c
UnreadCounts(u, c) ==
  UNION {{list[i].unreadCount : i \in {j \in DOMAIN list : list[j].id = c}} :
           list \in getUserChats(u)}

\* user u has fetched chat c: every participation row of u in c has a cursor
HasRead(u, c) ==
  /\ getChat(c) # {}
  /\ RowsOfPair(c, u) # {}
  /\ \A r \in RowsOfPair(c, u) : r.lastRead # NullTime

LedgerOf(c) == Restrict(chatParticipants, RowsOfChat(c))

\* C12: the creator's DELETE /api/groups/:chatId succeeds, and right after
\* it no message and no participation row of that chat remains,
\* getChatWithDetails finds nothing, no user's chat list has the chat, and
\* the messages and participation rows of every other chat are as before.
C12_DeleteCascades ==
  [][\A u \in AdmUsers, c \in AdmChatIds :
       (DeleteGroup(u, c) /\ IsCreator(c, u))
         => /\ last'.status = 200
            /\ ChatMessages(c)' = <<>>
            /\ RowsOfChat(c)' = {}
            /\ getChatWithDetails(c)' = {{}}
            /\ \A v \in Users : \A list \in getUserChats(v)' :
                 \A i \in DOMAIN list : list[i].id # c
            /\ \A d \in AdmChatIds \ {c} :
                 /\ ChatMessages(d)' = ChatMessages(d)
                 /\ LedgerOf(d)' = LedgerOf(d)]_vars

\* C12 witness: the creator has just deleted chat 1, which leaves none of
\* its rows, while chat 2 still has its two participants and a message.
C12_Witness ==
  /\ last = Response("deleteGroup", 200, <<>>)
  /\ getChat(1) = {}
  /\ ChatMessages(1) = <<>>
  /\ RowsOfChat(1) = {}
  /\ ChatMessages(2) # <<>>
  /\ ParticipantSet(2) = {"A", "B"}

\* C13: DELETE /api/groups/:chatId for an unknown chat id is answered 404,
\* and for a chat whose creator is not the caller (an admin who did not
\* create it, any participant of a private chat) it is answered 403; in both
\* cases the chats, participations and messages stay as they were.
C13_DeleteByNonCreator ==
  [][\A u \in AdmUsers, c \in AdmChatIds :
       DeleteGroup(u, c)
         => /\ getChat(c) = {} => (last'.status = 404 /\ UNCHANGED db)
            /\ (getChat(c) # {} /\ ~ IsCreator(c, u))
                 => (last'.status = 403 /\ UNCHANGED db)]_vars

\* C13 witness: a delete request has just been refused with 403 while B,
\* who did not create chat 1, is an admin of it.
C13_Witness ==
  /\ last = Response("deleteGroup", 403, <<>>)
  /\ getChat(1) # {}
  /\ ~ IsCreator(1, "B")
  /\ HasRole(1, "B", "admin")
  /\ getChat(2) # {}

\* C14: PATCH /api/groups/:chatId, POST /api/groups/:chatId/members and
\* PATCH /api/groups/:chatId/members/:memberId/role from a caller who has no
\* participation with role admin in the chat now (never had one, was
\* removed, or was demoted) are answered 403 and leave the chat rows and
\* the participation rows as they were.
C14_NonAdminCannotChange ==
  [][\A u \in AdmUsers, c \in AdmChatIds :
       (last'.op \in {"patchGroup", "postMembers", "patchRole"} /\ ~ HasRole(c, u, "admin"))
         => /\ PatchGroup(u, c, "n2")
                 => (last'.status = 403 /\ UNCHANGED <<chats, chatParticipants>>)
            /\ PostMembers(u, c, <<"B">>)
                 => (last'.status = 403 /\ UNCHANGED <<chats, chatParticipants>>)
            /\ \A m \in AdmUsers, r \in Roles :
                 PatchRole(u, c, m, r)
                   => (last'.status = 403 /\ UNCHANGED <<chats, chatParticipants>>)]_vars

\* C14 witness: a role change has just been refused with 403 in a state
\* where A, who created chat 1 as its admin, is still in it but demoted.
C14_Witness ==
  /\ last = Response("patchRole", 403, <<>>)
  /\ getChat(1) # {}
  /\ RowsOfPair(1, "A") # {}
  /\ ~ HasRole(1, "A", "admin")
  /\ RowsOfPair(1, "B") # {}

\* C15: every (chat, user) pair has at most one participation row.
C15_UniqueParticipation ==
  \A r \in BagToSet(chatParticipants) :
    CountRows(RowsOfPair(r.chatId, r.userId)) = 1

\* C16: addChatParticipant for a pair that already has a participation row
\* inserts nothing: the table is the same after the call.
C16_AddExistingConflicts ==
  \A r \in BagToSet(chatParticipants), role \in Roles :
    addChatParticipant(chatParticipants, r.chatId, r.userId, role) = chatParticipants

\* C17 as stated: a member-remove request in which caller and target are
\* both the creator is answered 200 and deletes the creator's participation.
C17_CreatorCanLeave ==
  [][\A u \in AdmUsers, c \in AdmChatIds :
       (DeleteMember(u, c, u) /\ IsCreator(c, u) /\ RowsOfPair(c, u) # {})
         => /\ last'.status = 200
            /\ RowsOfPair(c, u)' = {}]_vars

\* C17 as amended: a member-remove request in which caller and target are
\* both the creator is answered 400 and changes no participation row; the
\* creator stays a participant for as long as the chat exists.
C17_CreatorCannotLeave ==
  /\ [][\A u \in AdmUsers, c \in AdmChatIds :
          (DeleteMember(u, c, u) /\ IsCreator(c, u))
            => /\ last'.status = 400
               /\ UNCHANGED chatParticipants]_vars
  /\ [](\A ch \in chats : ch.createdBy # NULL => RowsOfPair(ch.id, ch.createdBy) # {})

\* C17 witness: the creator's own leave request has just been refused and
\* the creator is still a participant of chat 1.
C17_Witness ==
  /\ last = Response("deleteMember", 400, <<>>)
  /\ \E ch \in getChat(1) : RowsOfPair(1, ch.createdBy) # {}

\* C18: GET /api/chats/:chatId/messages by a user with no participation in
\* the chat returns none of its messages and changes no read cursor.
C18_OnlyParticipantsRead ==
  [][\A u \in Users, c \in ChatIds :
       (GetMessages(u, c) /\ getChat(c) # {} /\ RowsOfPair(c, u) = {})
         => /\ last'.ret = <<>>
            /\ UNCHANGED chatParticipants]_vars

\* s is an initial part of t
IsPrefix(s, t) == Len(s) <= Len(t) /\ SubSeq(t, 1, Len(s)) = s

\* C19: in every step the messages of a chat id are kept as they are, with
\* at most new ones added after them, unless the step is the successful
\* DELETE /api/groups/:chatId of that chat, which removes all of them.
C19_LogOnlyGrows ==
  [][\A c \in TimeChatIds :
       \/ IsPrefix(ChatMessages(c), ChatMessages(c)')
       \/ /\ last' = Response("deleteGroup", 200, <<>>)
          /\ getChat(c) # {}
          /\ getChat(c)' = {}
          /\ ChatMessages(c)' = <<>>]_vars

\* C19 witness: B has just been removed from chat 1, and the two messages
\* of chat 1, one of them B's, are still there.
C19_Witness ==
  /\ last = Response("deleteMember", 200, <<>>)
  /\ getChat(1) # {}
  /\ RowsOfPair(1, "B") = {}
  /\ Len(ChatMessages(1)) = 2
  /\ \E k \in 1 .. 2 : ChatMessages(1)[k].senderId = "B"

Limits == 0 .. LogMsgs + 1

\* C20: every possible result of getMessages(chatId, limit) has
\* min(limit, n) messages of the chat's n, all of that chat, in ascending
\* createdAt order, and no message left out is newer than one returned.
C20_GetMessagesRecent ==
  \A c \in TimeChatIds, limit \in Limits :
    \A res \in getMessages(c, limit) :
      LET all == SeqToBag(ChatMessages(c))
          got == SeqToBag(res)
      IN  /\ Len(res) = Min(limit, Len(ChatMessages(c)))
          /\ \A i \in DOMAIN res : res[i].chatId = c
          /\ \A i \in 1 .. Len(res) - 1 : res[i].createdAt <= res[i + 1].createdAt
          /\ got \sqsubseteq all
          /\ \A m \in BagToSet(all (-) got), i \in DOMAIN res :
               m.createdAt <= res[i].createdAt

\* C20 witness: chat 1 has an older and a newer message, a fetch has just
\* been served, and getMessages(1, 1) returns the newer message alone.
C20_Witness ==
  /\ Len(ChatMessages(1)) = 2
  /\ ChatMessages(1)[1].createdAt < ChatMessages(1)[2].createdAt
  /\ getMessages(1, 1) = {<<ChatMessages(1)[2]>>}
  /\ getMessages(1, 2) = {ChatMessages(1)}
  /\ last.op = "getMessages"

\* C22: with one request at a time no two friendship rows have the same
\* unordered pair of users, and POST /api/friends for a pair that has a row,
\* in either direction and whatever its status, is refused (400 'Friendship
\* already exists') and inserts nothing.
C22_OneFriendshipPerPair ==
  /\ [](\A f, g \in friendships :
          {f.userId, f.friendId} = {g.userId, g.friendId} => f = g)
  /\ [][\A u, v \in Users :
          (PostFriends(u, v) /\ FriendshipsBetween(u, v) # {})
            => /\ last' = Response("postFriends", 400, <<>>)
               /\ UNCHANGED friendships]_vars

\* C22 witness: a request has just been refused while the only rows are an
\* accepted friendship and a request in the opposite direction of another.
C22_Witness ==
  /\ last = Response("postFriends", 400, <<>>)
  /\ Cardinality(friendships) = 2
  /\ \E f \in friendships : f.status = "accepted"
  /\ \E f \in friendships : f.status = "pending"

\* C23: the status of a friendship changes only from pending, to accepted
\* or to rejected.
C23_StatusOnlyFromPending ==
  [][\A f \in friendships, g \in friendships' :
       (f.id = g.id /\ f.status # g.status)
         => /\ f.status = "pending"
            /\ g.status \in {"accepted", "rejected"}]_vars

\* C30: PATCH /api/friends/:friendshipId from a caller who is not the
\* recipient of that friendship's pending request changes no status.
C30_OnlyRecipientAnswers ==
  [][\A u \in Users, id \in FriendshipIds, st \in PatchStatuses :
       (PatchFriends(u, id, st) /\ ~ \E f \in getPendingRequests(u) : f.id = id)
         => friendships' = friendships]_vars

\* the newest createdAt among the messages of chat c, or the chat's own
\* createdAt when it has no message
LastActivity(c) ==
  LET ms == ChatMessages(c)
  IN  IF ms = <<>> THEN (CHOOSE ch \in getChat(c) : TRUE).createdAt
      ELSE CHOOSE t \in {ms[k].createdAt : k \in DOMAIN ms} :
             \A k \in DOMAIN ms : ms[k].createdAt <= t

\* C21: every possible result of getUserChats(u) lists exactly the chats in
\* which u has a participation, each once, in descending order of the
\* createdAt of the chat's last message, or of the chat when it has none.
C21_UserChatsExact ==
  \A u \in Users :
    \A list \in getUserChats(u) :
      /\ {list[i].id : i \in DOMAIN list} = {ch.id : ch \in {x \in chats : RowsOfPair(x.id, u) # {}}}
      /\ \A i, j \in DOMAIN list : i # j => list[i].id # list[j].id
      /\ \A i \in 1 .. Len(list) - 1 :
           LastActivity(list[i].id) >= LastActivity(list[i + 1].id)

\* C25: every message and every participation row refers to a chat that
\* exists, so a post or a member add aimed at an unknown or deleted chat id
\* leaves no record behind.
C25_RecordsReferToChats ==
  /\ \A m \in {messages[k] : k \in DOMAIN messages} : getChat(m.chatId) # {}
  /\ \A r \in BagToSet(chatParticipants) : getChat(r.chatId) # {}

IsPrivate(c) == \E ch \in getChat(c) : ch.type = "private"

\* C29: no participation row of a private chat has role admin; so a request
\* to a private chat that needs an admin (edit the settings, add members,
\* change a role, remove the other participant) is answered 403 and changes
\* nothing, and the participation rows of a private chat change only when a
\* participant removes themself.
C29_PrivateChatHasNoAdmin ==
  /\ [](\A c \in PrivChatIds :
          IsPrivate(c) => \A r \in RowsOfChat(c) : r.role # "admin")
  /\ [][\/ last'.status = 403 /\ UNCHANGED db
        \/ \A u \in Users, c \in PrivChatIds :
             ~ (/\ last'.op \in {"patchGroup", "postMembers", "patchRole", "deleteMember"}
                /\ IsPrivate(c)
                /\ \/ \E n \in Names : PatchGroup(u, c, n)
                   \/ \E ms \in MemberLists \ {<<>>} : PostMembers(u, c, ms)
                   \/ \E m \in Users, r \in Roles : PatchRole(u, c, m, r)
                   \/ \E m \in Users \ {u} : DeleteMember(u, c, m))]_vars
  /\ [][\A c \in PrivChatIds :
          (IsPrivate(c) /\ LedgerOf(c)' # LedgerOf(c))
            => \E u \in Users :
                 /\ DeleteMember(u, c, u)
                 /\ RowsOfPair(c, u) # {}
                 /\ RowsOfChat(c)' = RowsOfChat(c) \ RowsOfPair(c, u)]_vars

C29_Witness ==
  /\ last = Response("postMembers", 403, <<>>)
  /\ \E c \in PrivChatIds :
       /\ IsPrivate(c)
       /\ \E u \in Users : ParticipantSet(c) = {u}

\* ---------------------------------------------------------------------
\* The chat list after a post: two chats shared by A and B, posts to either,
\* the clock, and the list request.

NextList ==
  \/ \E u \in AdmUsers, c \in AdmChatIds : PostMessage(u, c) /\ Len(messages') <= ListMsgs
  \/ \E u \in AdmUsers : GetChats(u)
  \/ Tick /\ now' <= ListClock

SpecList == InitAdm /\ [][NextList]_vars

\* the clock has advanced since every timestamp handed out so far
ClockAhead ==
  /\ \A k \in DOMAIN messages : messages[k].createdAt < now
  /\ \A ch \in chats : ch.createdAt < now

\* C24: when a message is appended to an existing chat c at a clock value
\* later than every timestamp handed out before, every possible chat list of
\* every participant of c has c in first place right after the post.
C24_PostedChatListedFirst ==
  [][\A u \in AdmUsers, c \in AdmChatIds :
       (/\ last'.op = "postMessage"
        /\ last'.status = 200
        /\ getChat(c) # {}
        /\ ClockAhead
        /\ PostMessage(u, c))
         => \A v \in ParticipantSet(c) :
              \A list \in getUserChats(v)' : list # <<>> /\ list[1].id = c]_vars

C24_Witness ==
  /\ last.op = "getChats"
  /\ Len(last.ret) = 2
  /\ last.ret[1].id = 1
  /\ Len(messages) = 2
  /\ messages[1].chatId = 2
  /\ messages[2].chatId = 1
  /\ messages[1].createdAt < messages[2].createdAt

\* ---------------------------------------------------------------------
\* The member-add loop with a failure part-way. Each await of the loop is a
\* statement of its own (no transaction): when the k-th iteration throws,
\* the iterations before it have been written and the catch block answers
\* 500. k = Len(memberIds) + 1 is a failure of the final getChatWithDetails.

BulkUsers == {"B", "C"}   \* the users a request names; A is in every chat of InitTime
BulkLists == SeqsUpTo(BulkUsers, MaxBulk) \ {<<>>}

PostMembersFails_rollback(userId, chatId, memberIds, k) ==
  /\ \E participant \in getChatParticipant(chatId, userId) :
       IF participant = {} \/ \E p \in participant : p.role # "admin"
       THEN /\ last' = Response("postMembers", 403, <<>>)
            /\ UNCHANGED chatParticipants
       ELSE /\ chatParticipants' = chatParticipants
            /\ last' = Response("postMembers", 500, <<>>)
  /\ UNCHANGED <<chats, messages, nextId, now, conc, friendships>>

PostMembersFails(userId, chatId, memberIds, k) ==
  /\ \E participant \in getChatParticipant(chatId, userId) :
       IF participant = {} \/ \E p \in participant : p.role # "admin"
       THEN /\ last' = Response("postMembers", 403, <<>>)
            /\ UNCHANGED chatParticipants
       ELSE /\ chatParticipants' =
                 addMissing(chatParticipants, chatId, SubSeq(memberIds, 1, k - 1))
            /\ last' = Response("postMembers", 500, <<>>)
  /\ UNCHANGED <<chats, messages, nextId, now, conc, friendships>>

NextBulk ==
  \/ \E u \in Users, ms \in BulkLists : PostMembers(u, 1, ms)
  \/ \E u \in Users, ms \in BulkLists, k \in 1 .. MaxBulk + 1 :
       k <= Len(ms) + 1 /\ PostMembersFails(u, 1, ms, k)
  \/ \E u \in Users, m \in Users : DeleteMember(u, 1, m)
  \/ \E u \in Users, m \in Users, r \in Roles : PatchRole(u, 1, m, r)

SpecBulk == InitTime /\ [][NextBulk]_vars

\* the rows a member-add request leaves after working through the list
\* `done`: one new member row for each user of the list who had no row in
\* the chat, every other row as it was
AfterAdding(c, done) ==
  chatParticipants (+)
    SetToBag({NewRow(c, done[i], "member") :
                i \in {n \in DOMAIN done : RowsOfPair(c, done[n]) = {}}})

\* C26: a member-add request whose k-th addition fails answers 500 and
\* leaves exactly the additions before the k-th in place; a request that
\* succeeds leaves all of them; in both a user who already had a row in the
\* chat gets no further row.
C26_PartialAddStays ==
  [][(last'.op = "postMembers" /\ last'.status # 403)
       => \A u \in Users, ms \in BulkLists :
            /\ (last'.status = 200 /\ PostMembers(u, 1, ms))
                 => chatParticipants' = AfterAdding(1, ms)
            /\ \A k \in 1 .. Len(ms) + 1 :
                 PostMembersFails(u, 1, ms, k)
                   => /\ last'.status = 500
                      /\ chatParticipants' = AfterAdding(1, SubSeq(ms, 1, k - 1))]_vars

C26_Witness ==
  /\ last = Response("postMembers", 500, <<>>)
  /\ ParticipantSet(1) = {"A", "C"}
  /\ CountRows(RowsOfPair(1, "C")) = 1

\* ---------------------------------------------------------------------
\* DELETE /api/groups/:chatId served while other requests run: deleteChat
\* awaits three delete statements, one after the other and outside any
\* transaction, so a message post or a member add of another request can
\* run between two of them.

\* part_003 338-346: the chat lookup and the creator test
DelStart(p, userId, chatId) ==
  /\ pc[p] = "idle"
  /\ IF getChat(chatId) = {}
     THEN /\ last' = Response("deleteGroup", 404, <<>>)
          /\ UNCHANGED <<pc, req>>
     ELSE IF \E ch \in getChat(chatId) : ch.createdBy # userId
     THEN /\ last' = Response("deleteGroup", 403, <<>>)
          /\ UNCHANGED <<pc, req>>
     ELSE /\ pc' = [pc EXCEPT ![p] = "delMessages"]
          /\ req' = [req EXCEPT ![p] = [userId |-> userId,
                                        participantId |-> NULL,
                                        chatId |-> chatId]]
          /\ UNCHANGED last
  /\ UNCHANGED <<chats, chatParticipants, messages, nextId, now, friendships>>

\* part_004 302: delete the messages of the chat
DelMessages(p) ==
  /\ pc[p] = "delMessages"
  /\ messages' = SelectSeq(messages, LAMBDA m : m.chatId # req[p].chatId)
  /\ pc' = [pc EXCEPT ![p] = "delParticipants"]
  /\ UNCHANGED <<chats, chatParticipants, nextId, now, last, req, friendships>>

\* part_004 304: delete the participation rows of the chat
DelParticipants(p) ==
  /\ pc[p] = "delParticipants"
  /\ chatParticipants' =
       Restrict(chatParticipants,
                {r \in BagToSet(chatParticipants) : r.chatId # req[p].chatId})
  /\ pc' = [pc EXCEPT ![p] = "delChat"]
  /\ UNCHANGED <<chats, messages, nextId, now, last, req, friendships>>

\* part_004 306 and part_003 349: delete the chat row, then answer
DelChatRow(p) ==
  /\ pc[p] = "delChat"
  /\ chats' = {ch \in chats : ch.id # req[p].chatId}
  /\ last' = Response("deleteGroup", 200, <<>>)
  /\ pc' = [pc EXCEPT ![p] = "idle"]
  /\ req' = [req EXCEPT ![p] = NoRequest]
  /\ UNCHANGED <<chatParticipants, messages, nextId, now, friendships>>

\* part_003 368-371: the admin test of a member add naming one user
MembersCheck(p, userId, chatId, memberId) ==
  /\ pc[p] = "idle"
  /\ \E participant \in getChatParticipant(chatId, userId) :
       IF participant = {} \/ \E q \in participant : q.role # "admin"
       THEN /\ last' = Response("postMembers", 403, <<>>)
            /\ UNCHANGED <<pc, req>>
       ELSE /\ pc' = [pc EXCEPT ![p] = "addMember"]
            /\ req' = [req EXCEPT ![p] = [userId |-> userId,
                                          participantId |-> memberId,
                                          chatId |-> chatId]]
            /\ UNCHANGED last
  /\ UNCHANGED <<chats, chatParticipants, messages, nextId, now, friendships>>

\* part_003 375-384: the loop body for that user, then the answer
MembersAdd(p) ==
  /\ pc[p] = "addMember"
  /\ chatParticipants' =
       addMissing(chatParticipants, req[p].chatId, <<req[p].participantId>>)
  /\ last' = Response("postMembers", 200, <<>>)
  /\ pc' = [pc EXCEPT ![p] = "idle"]
  /\ req' = [req EXCEPT ![p] = NoRequest]
  /\ UNCHANGED <<chats, messages, nextId, now, friendships>>

NextDel ==
  \/ \E p \in Procs, u \in AdmUsers : DelStart(p, u, 1)
  \/ \E p \in Procs : DelMessages(p)
  \/ \E p \in Procs : DelParticipants(p)
  \/ \E p \in Procs : DelChatRow(p)
  \/ \E u \in AdmUsers : PostMessage(u, 1) /\ Len(messages') <= DelMsgs
  \/ \E p \in Procs, u \in AdmUsers, m \in Users : MembersCheck(p, u, 1, m)
  \/ \E p \in Procs : MembersAdd(p)

SpecDel == InitTime /\ [][NextDel]_vars

\* C27: when a deletion of a chat completes (its last step removes the chat
\* row), no message and no participation row of that chat is left, whatever
\* other requests ran between the steps of the deletion.
C27_DeletionLeavesNothing ==
  [][\A p \in Procs :
       DelChatRow(p)
         => /\ \A k \in DOMAIN messages' : messages'[k].chatId # req[p].chatId
            /\ RowsOfChat(req[p].chatId)' = {}]_vars

\* ---------------------------------------------------------------------
\* GET /api/chats/:chatId/messages served while posts run: the handler
\* awaits markMessagesAsRead and then getMessages, so a post of another
\* request can run between the two or after them.

\* part_003 256: the cursor update. new Date() is read before the UPDATE is
\* sent; by the time the statement has returned the one increasing clock
\* has moved on, so every later timestamp is larger than this cursor.
FetchMark(p, userId, chatId) ==
  /\ pc[p] = "idle"
  /\ chatParticipants' = markMessagesAsRead(chatParticipants, chatId, userId)
  /\ now' = now + 1
  /\ pc' = [pc EXCEPT ![p] = "read"]
  /\ req' = [req EXCEPT ![p] = [userId |-> userId,
                                participantId |-> NULL,
                                chatId |-> chatId]]
  /\ UNCHANGED <<chats, messages, nextId, last, friendships>>

\* a read step that sets the cursor again, after the list has been read
FetchRead_markAfter(p) ==
  /\ pc[p] = "read"
  /\ \E msgs \in getMessages(req[p].chatId, DefaultLimit) :
       last' = Response("getMessages", 200, msgs)
  /\ chatParticipants' =
       markMessagesAsRead(chatParticipants, req[p].chatId, req[p].userId)
  /\ pc' = [pc EXCEPT ![p] = "idle"]
  /\ req' = [req EXCEPT ![p] = NoRequest]
  /\ UNCHANGED <<chats, messages, nextId, now, friendships>>

\* part_003 258-259: the list is read and sent
FetchRead(p) ==
  /\ pc[p] = "read"
  /\ \E msgs \in getMessages(req[p].chatId, DefaultLimit) :
       last' = Response("getMessages", 200, msgs)
  /\ pc' = [pc EXCEPT ![p] = "idle"]
  /\ req' = [req EXCEPT ![p] = NoRequest]
  /\ UNCHANGED <<chats, chatParticipants, messages, nextId, now, friendships>>

NextFetch ==
  \/ \E p \in Procs, u \in AdmUsers : FetchMark(p, u, 1) /\ now' <= FetchClock
  \/ \E p \in Procs : FetchRead(p)
  \/ \E u \in AdmUsers : PostMessage(u, 1) /\ Len(messages') <= FetchMsgs
  \/ Tick /\ now' <= FetchClock

SpecFetch == InitTime /\ [][NextFetch]_vars

\* the messages of chat c sent by someone other than u that u's cursor
\* covers (createdAt at or before the cursor of every row of u in c)
CountedRead(u, c) ==
  {m \in {messages[k] : k \in DOMAIN messages} :
     /\ m.chatId = c
     /\ m.senderId # u
     /\ RowsOfPair(c, u) # {}
     /\ \A r \in RowsOfPair(c, u) : r.lastRead # NullTime /\ m.createdAt <= r.lastRead}

\* C28: (a) the list a fetch of chat c by u returns holds every message that
\* u's cursor covers at that moment (the chat holding no more than the
\* limit); (b) a message posted while or after a fetch is not covered by the
\* cursor of any other participant, so what a cursor covers was in the log
\* when the list of the fetch that set it was read.
C28_ReadImpliesReturned ==
  /\ [][\A p \in Procs :
          (FetchRead(p) /\ Len(ChatMessages(req[p].chatId)) <= DefaultLimit)
            => \A m \in CountedRead(req[p].userId, req[p].chatId) :
                 \E k \in DOMAIN last'.ret : last'.ret[k] = m]_vars
  /\ [][\A u \in AdmUsers :
          (last'.op = "postMessage" /\ last'.status = 200 /\ PostMessage(u, 1))
            => \A v \in Users \ {u} :
                 messages'[Len(messages')] \notin CountedRead(v, 1)']_vars

C28_Witness ==
  /\ last.op = "getMessages"
  /\ Len(last.ret) = 2
  /\ CountedRead("A", 1) = {last.ret[1]}
  /\ last.ret[2].senderId = "B"
  /\ \E p \in Procs : pc[p] = "idle"

====
